---------------------------- MODULE Spec2Model ----------------------------
(***************************************************************************)
(* Model of plot_musical_notes.py: the frequency-table generator           *)
(* (calc_octave, calc_all_notes), the name generator                       *)
(* (combine_prefix_suffix), the chord resolver (calc_chord_freqs) and the  *)
(* driver chords(range).                                                   *)
(*                                                                         *)
(* Frequencies are the source's decimal literals written as integers in    *)
(* units of 1/FreqScale Hz (8.1758 Hz is 81758).  Every frequency the code *)
(* computes is a literal times a power of two, which binary floating point *)
(* computes without rounding, so ==, < and doubling on the floats agree    *)
(* with the same operations on these integers.                             *)
(***************************************************************************)
EXTENDS Integers, Sequences, FiniteSets, TLC

VARIABLES
    pc,                      \* position of the modelled run
    range,                   \* argument of chords(range)
    input_scale,             \* argument of calc_all_notes
    note_names,              \* chords(): note_names
    all_notes,               \* chords(): all_notes (result of calc_all_notes)
    table_err,               \* exception raised by the last calc_all_notes call
    notes_dict,              \* chords(): notes_dict
    chord_names,             \* chords(): chord_names
    c_chord_names,           \* chords(): c_chord_names
    c_chord_frequencies,     \* chords(): c_chord_frequencies
    temp_chord_frequencies,  \* chords(): temp_chord_frequencies
    chord_frequencies,       \* chords(): chord_frequencies
    root_idx,                \* index of the for loop of line 288
    outer_idx,               \* index of the for loop of line 293
    inner_idx,               \* index of the for loop of line 295
    c_chord_dict,            \* chords(): c_chord_dict
    chord_dict,              \* chords(): chord_dict
    retval,                  \* value returned by chords(range)
    root_note,               \* calc_chord_freqs argument root_note
    call_intervals,          \* calc_chord_freqs argument chord_intervals
    call                     \* outcome of the last calc_chord_freqs call

vars == <<pc, range, input_scale, note_names, all_notes, table_err, notes_dict,
          chord_names, c_chord_names, c_chord_frequencies,
          temp_chord_frequencies, chord_frequencies, root_idx, outer_idx,
          inner_idx, c_chord_dict, chord_dict, retval, root_note,
          call_intervals, call>>

(***************************************************************************)
(* Bounds of the model.                                                    *)
(***************************************************************************)
\* longest base-frequency list handed to calc_all_notes besides cf_1, df_1
MaxScaleLen == 3
\* largest base frequency (in Hz) of those lists; the smallest is -1 Hz
MaxBase == 2
\* largest interval of the extra single-interval chords handed to the resolver
MaxInterval == 24

(***************************************************************************)
(* Static data of chords() and main().                                     *)
(***************************************************************************)
FreqScale == 10000

note_name_prefixes == <<"C", "Cs", "D", "Ds", "E", "F", "Fs", "G", "Gs", "A", "As", "B">>
note_name_suffixes == <<"-1", "0", "1", "2", "3", "4", "5", "6", "7", "8", "9">>

\* two digits of E exchanged: 10.310 for 10.301
cf_1_typo == <<81758, 86620, 91770, 97227, 103100, 109140,
               115630, 122500, 129790, 137500, 145680, 154340>>

cf_1 == <<81758, 86620, 91770, 97227, 103010, 109140,
          115630, 122500, 129790, 137500, 145680, 154340>>

df_1 == <<81758, 91770, 103010, 109140, 122500, 137500, 154340>>

chord_name_prefixes == <<"C", "Cs", "D", "Ds", "E", "F", "Fs", "G", "Gs", "A", "As", "B">>
chord_name_suffixes == <<" ", "m", "7", "m7", "maj7", "6", "m6", "6/9", "5", "9", "m9", "maj9",
                         "11", "m11", "13", "m13", "add9", "add2", "7-5", "7+5", "sus4", "sus2",
                         "dim", "m7b5", "aug">>
c_chord_name_prefixes == <<"C">>

root == 0
minor_second == 1
major_second == 2
minor_third == 3
major_third == 4
perfect_fourth == 5
diminished_fifth == 6
perfect_fifth == 7
minor_sixth == 8
major_sixth == 9
minor_seventh == 10
major_seventh == 11
perfect_octave == 12
minor_ninth == 13
major_ninth == 14
minor_tenth == 15
major_tenth == 16
eleventh == 17
thirteenth == 21

i0 == <<root, major_third, perfect_fifth>>
i1 == <<root, minor_third, perfect_fifth>>
i2 == <<root, major_third, perfect_fifth, minor_seventh>>
i3 == <<root, minor_third, perfect_fifth, minor_seventh>>
i4 == <<root, major_third, perfect_fifth, major_seventh>>
i5 == <<root, major_third, perfect_fifth, major_sixth>>
i6 == <<root, minor_third, perfect_fifth, major_sixth>>
i7 == <<root, major_third, perfect_fifth, major_sixth, major_ninth>>
i8 == <<root, perfect_fifth>>
i9 == <<root, major_third, perfect_fifth, minor_seventh, major_ninth>>
i10 == <<root, minor_third, perfect_fifth, minor_seventh, major_ninth>>
i11 == <<root, major_third, perfect_fifth, major_seventh, major_ninth>>
i12 == <<root, major_third, perfect_fifth, minor_seventh, major_ninth, eleventh>>
i13 == <<root, minor_third, perfect_fifth, minor_seventh, major_ninth, eleventh>>
i14 == <<root, major_third, perfect_fifth, minor_seventh, major_ninth, eleventh, thirteenth>>
i15 == <<root, minor_third, perfect_fifth, minor_seventh, major_ninth, eleventh, thirteenth>>
i16 == <<root, major_third, perfect_fifth, major_ninth>>
i17 == <<root, major_second, major_third, perfect_fifth>>
i18 == <<root, major_third, diminished_fifth, minor_seventh>>
i19 == <<root, major_third, minor_sixth, minor_seventh>>
i20 == <<root, perfect_fourth, perfect_fifth>>
i21 == <<root, major_second, perfect_fifth>>
i22 == <<root, minor_third, diminished_fifth>>
i23 == <<root, minor_third, diminished_fifth, minor_seventh>>
i24 == <<root, major_third, minor_sixth>>

chord_intervals == <<i0, i1, i2, i3, i4, i5, i6, i7, i8, i9, i10, i11, i12, i13, i14,
                     i15, i16, i17, i18, i19, i20, i21, i22, i23, i24>>

middle_c_chromatic == <<"C4", "Cs4", "D4", "Ds4", "E4", "F4", "Fs4", "G4", "Gs4", "A5", "As5", "B5">>

root_note_c4 == "C4"

(***************************************************************************)
(* combine_prefix_suffix(prefixes, suffixes, order)                        *)
(***************************************************************************)
\* a wrong nesting: the two orders exchanged
combine_prefix_suffix_swapped(prefixes, suffixes, order) ==
    LET np == Len(prefixes)
        ns == Len(suffixes)
    IN  IF order = "suffixes_first"
        THEN [k \in 1..(np * ns) |->
                 prefixes[((k - 1) % np) + 1] \o suffixes[((k - 1) \div np) + 1]]
        ELSE IF order = "prefixes_first"
        THEN [k \in 1..(np * ns) |->
                 prefixes[((k - 1) \div ns) + 1] \o suffixes[((k - 1) % ns) + 1]]
        ELSE <<>>

combine_prefix_suffix(prefixes, suffixes, order) ==
    LET np == Len(prefixes)
        ns == Len(suffixes)
    IN  IF order = "prefixes_first"
        \* for suff in suffixes: for pre in prefixes: append(pre+suff)
        THEN [k \in 1..(np * ns) |->
                 prefixes[((k - 1) % np) + 1] \o suffixes[((k - 1) \div np) + 1]]
        ELSE IF order = "suffixes_first"
        \* for pre in prefixes: for suff in suffixes: append(pre+suff)
        THEN [k \in 1..(np * ns) |->
                 prefixes[((k - 1) \div ns) + 1] \o suffixes[((k - 1) % ns) + 1]]
        ELSE <<>>

(***************************************************************************)
(* calc_octave and calc_all_notes                                          *)
(***************************************************************************)
RECURSIVE np_power2(_)
\* np.power(2, n) for a whole n >= 0
np_power2(n) == IF n <= 0 THEN 1 ELSE 2 * np_power2(n - 1)

\* a product where the power was meant
calc_octave_times(input_pitch, num_octaves) == input_pitch * (2 * num_octaves)

calc_octave(input_pitch, num_octaves) == input_pitch * np_power2(num_octaves)

\* the inner loop of calc_all_notes for one i: one entry per note of the scale
OctaveRow(scale, i) ==
    [j \in 1..Len(scale) |-> calc_octave(scale[j], i)]

RECURSIVE OctaveLoop(_, _)
\* the outer loop of calc_all_notes from i on: i ranges over range(0, len(input_scale))
OctaveLoop(scale, i) ==
    IF i >= Len(scale) THEN <<>>
    ELSE OctaveRow(scale, i) \o OctaveLoop(scale, i + 1)

\* the two loops exchanged: notes outside, octaves inside
calc_all_notes_transposed(scale) ==
    LET n == Len(scale)
    IN  [k \in 1..(n * n) |-> calc_octave(scale[((k - 1) \div n) + 1], (k - 1) % n)]

\* a builder that rejects short or non-positive scales and yields no table
calc_all_notes_validating(scale) ==
    IF Len(scale) < 12 \/ (\E j \in 1..Len(scale) : scale[j] <= 0)
    THEN <<>>
    ELSE OctaveLoop(scale, 0)

calc_all_notes(scale) == OctaveLoop(scale, 0)

\* the values paired one place late: zip(keys, values[1:])
dict_zip_shifted(keys, values) ==
    LET m == IF Len(keys) <= Len(values) THEN Len(keys) ELSE Len(values)
    IN  [n \in {keys[i] : i \in 1..m} |->
            LET last == CHOOSE i \in 1..m :
                            /\ keys[i] = n
                            /\ \A h \in 1..m : keys[h] = n => h <= i
            IN  values[IF last < Len(values) THEN last + 1 ELSE last]]

(***************************************************************************)
(* dict(zip(keys, values)): pairs up to the shorter list; a repeated key   *)
(* keeps the value of its last occurrence.                                 *)
(***************************************************************************)
Min(a, b) == IF a <= b THEN a ELSE b

EmptyDict == [n \in {} |-> 0]

dict_zip(keys, values) ==
    LET m == Min(Len(keys), Len(values))
    IN  [n \in {keys[i] : i \in 1..m} |->
            LET last == CHOOSE i \in 1..m :
                            /\ keys[i] = n
                            /\ \A h \in 1..m : keys[h] = n => h <= i
            IN  values[last]]

(***************************************************************************)
(* calc_chord_freqs(chord_names, chord_intervals, root_note, notes_dict,   *)
(* all_notes), parameters abbreviated cn, ci, rn, nd, an.  Its outcome is  *)
(* a record: err is "none" or the exception that leaves the function, pos  *)
(* the position the scan stopped at (NoPos when the scan was not reached), *)
(* ret the returned list (empty when an exception is raised).              *)
(***************************************************************************)
NoPos == -1

NoCall == [err |-> "nocall", pos |-> NoPos, ret |-> <<>>]

\* an index taken modulo the length instead of failing
list_get_wrapping(lst, i) ==
    IF Len(lst) = 0 THEN [ok |-> FALSE, val |-> 0]
    ELSE [ok |-> TRUE, val |-> lst[(i % Len(lst)) + 1]]

\* lst[i] of a Python list: negative i counts from the end, anything outside
\* -len..len-1 raises IndexError
list_get(lst, i) ==
    IF 0 <= i /\ i < Len(lst) THEN [ok |-> TRUE, val |-> lst[i + 1]]
    ELSE IF -Len(lst) <= i /\ i < 0 THEN [ok |-> TRUE, val |-> lst[Len(lst) + i + 1]]
    ELSE [ok |-> FALSE, val |-> 0]

\* the positions (0-based) of the entries of an equal to freq
EqualPositions(an, freq) == {p \in 0..(Len(an) - 1) : an[p + 1] = freq}

\* pos incremented before the comparison
ScanPos_late(an, freq) ==
    IF EqualPositions(an, freq) = {} THEN Len(an) + 1
    ELSE 1 + CHOOSE p \in EqualPositions(an, freq) :
                 \A q \in EqualPositions(an, freq) : p <= q

\* lines 324-328: pos = 0, then pos = pos + 1 for every entry before the first
\* one equal to freq; len(all_notes) when no entry is equal
ScanPos(an, freq) ==
    IF EqualPositions(an, freq) = {} THEN Len(an)
    ELSE CHOOSE p \in EqualPositions(an, freq) :
             \A q \in EqualPositions(an, freq) : p <= q

\* the interval subtracted where it was to be added
chord_freq_below(an, pos, chord) ==
    [j \in 1..Len(chord) |-> list_get(an, pos - chord[j]).val]

\* lines 335-338: the frequencies of one chord
chord_freq(an, pos, chord) ==
    [j \in 1..Len(chord) |-> list_get(an, pos + chord[j]).val]

\* notes_dict.get(root_note) where notes_dict[root_note] was meant: a missing
\* root yields None, which no table entry equals
calc_chord_freqs_get(cn, ci, rn, nd, an) ==
    LET pos == IF rn \in DOMAIN nd THEN ScanPos(an, nd[rn]) ELSE Len(an)
    IN  IF \E c \in 1..Len(ci) : \E j \in 1..Len(ci[c]) :
               ~ list_get(an, pos + ci[c][j]).ok
        THEN [err |-> "IndexError", pos |-> pos, ret |-> <<>>]
        ELSE [err |-> "none", pos |-> pos,
              ret |-> [c \in 1..Len(ci) |-> chord_freq(an, pos, ci[c])]]

calc_chord_freqs(cn, ci, rn, nd, an) ==
    IF rn \notin DOMAIN nd
    THEN [err |-> "KeyError", pos |-> NoPos, ret |-> <<>>]
    ELSE LET root_note_freq == nd[rn]
             pos == ScanPos(an, root_note_freq)
         IN  IF \E c \in 1..Len(ci) : \E j \in 1..Len(ci[c]) :
                    ~ list_get(an, pos + ci[c][j]).ok
             THEN [err |-> "IndexError", pos |-> pos, ret |-> <<>>]
             ELSE [err |-> "none", pos |-> pos,
                   ret |-> [c \in 1..Len(ci) |-> chord_freq(an, pos, ci[c])]]

(***************************************************************************)
(* Specification Spec: one run of chords(range), for the two arguments     *)
(* main() passes.                                                          *)
(***************************************************************************)
RangeInputs == {"c", "all"}

Init ==
    /\ pc = "start"
    /\ range \in RangeInputs
    /\ input_scale = <<>>
    /\ note_names = <<>>
    /\ all_notes = <<>>
    /\ table_err = "nocall"
    /\ notes_dict = EmptyDict
    /\ chord_names = <<>>
    /\ c_chord_names = <<>>
    /\ c_chord_frequencies = <<>>
    /\ temp_chord_frequencies = <<>>
    /\ chord_frequencies = <<>>
    /\ root_idx = 1
    /\ outer_idx = 1
    /\ inner_idx = 1
    /\ c_chord_dict = EmptyDict
    /\ chord_dict = EmptyDict
    /\ retval = EmptyDict
    /\ root_note = ""
    /\ call_intervals = <<>>
    /\ call = NoCall

\* lines 190-212: note names, the frequency table and the name -> frequency dict
BuildNoteTable ==
    /\ pc = "start"
    /\ note_names' = combine_prefix_suffix(note_name_prefixes, note_name_suffixes,
                                           "prefixes_first")
    /\ input_scale' = cf_1
    /\ all_notes' = calc_all_notes(cf_1)
    /\ table_err' = "none"
    /\ notes_dict' = dict_zip(note_names', all_notes')
    /\ pc' = "chord_names"
    /\ UNCHANGED <<range, chord_names, c_chord_names, c_chord_frequencies,
                   temp_chord_frequencies, chord_frequencies, root_idx, outer_idx,
                   inner_idx, c_chord_dict, chord_dict, retval, root_note,
                   call_intervals, call>>

\* lines 213-223: the chord names
BuildChordNames ==
    /\ pc = "chord_names"
    /\ chord_names' = combine_prefix_suffix(chord_name_prefixes, chord_name_suffixes,
                                            "suffixes_first")
    /\ c_chord_names' = combine_prefix_suffix(c_chord_name_prefixes, chord_name_suffixes,
                                              "suffixes_first")
    /\ pc' = "c_chord"
    /\ UNCHANGED <<table_err, range, input_scale, note_names, all_notes, notes_dict,
                   c_chord_frequencies, temp_chord_frequencies, chord_frequencies,
                   root_idx, outer_idx, inner_idx, c_chord_dict, chord_dict, retval,
                   root_note, call_intervals, call>>

\* lines 278-281: the chords of root C4; an exception leaves chords()
ResolveCChords ==
    /\ pc = "c_chord"
    /\ root_note' = root_note_c4
    /\ call_intervals' = chord_intervals
    /\ call' = calc_chord_freqs(chord_names, chord_intervals, root_note_c4,
                                notes_dict, all_notes)
    /\ c_chord_frequencies' = call'.ret
    /\ pc' = IF call'.err = "none" THEN "roots" ELSE "raised"
    /\ UNCHANGED <<table_err, range, input_scale, note_names, all_notes, notes_dict, chord_names,
                   c_chord_names, temp_chord_frequencies, chord_frequencies, root_idx,
                   outer_idx, inner_idx, c_chord_dict, chord_dict, retval>>

\* lines 288-289: one iteration of the loop over middle_c_chromatic
ResolveRootChords ==
    /\ pc = "roots"
    /\ root_idx <= Len(middle_c_chromatic)
    /\ root_note' = middle_c_chromatic[root_idx]
    /\ call_intervals' = chord_intervals
    /\ call' = calc_chord_freqs(chord_names, chord_intervals, root_note',
                                notes_dict, all_notes)
    /\ temp_chord_frequencies' =
           IF call'.err = "none" THEN Append(temp_chord_frequencies, call'.ret)
           ELSE temp_chord_frequencies
    /\ root_idx' = root_idx + 1
    /\ pc' = IF call'.err # "none" THEN "raised"
             ELSE IF root_idx = Len(middle_c_chromatic) THEN "flatten"
             ELSE "roots"
    /\ UNCHANGED <<table_err, range, input_scale, note_names, all_notes, notes_dict, chord_names,
                   c_chord_names, c_chord_frequencies, chord_frequencies, outer_idx,
                   inner_idx, c_chord_dict, chord_dict, retval>>

\* the inner append moved out of the inner loop: only the last chord of each
\* root is kept
FlattenStep_last_only ==
    /\ pc = "flatten"
    /\ outer_idx <= Len(temp_chord_frequencies)
    /\ inner_idx <= Len(temp_chord_frequencies[outer_idx])
    /\ chord_frequencies' =
           IF inner_idx = Len(temp_chord_frequencies[outer_idx])
           THEN Append(chord_frequencies, temp_chord_frequencies[outer_idx][inner_idx])
           ELSE chord_frequencies
    /\ IF inner_idx < Len(temp_chord_frequencies[outer_idx])
       THEN /\ inner_idx' = inner_idx + 1
            /\ outer_idx' = outer_idx
            /\ pc' = "flatten"
       ELSE /\ inner_idx' = 1
            /\ outer_idx' = outer_idx + 1
            /\ pc' = IF outer_idx = Len(temp_chord_frequencies) THEN "zip" ELSE "flatten"
    /\ UNCHANGED <<table_err, range, input_scale, note_names, all_notes, notes_dict, chord_names,
                   c_chord_names, c_chord_frequencies, temp_chord_frequencies, root_idx,
                   c_chord_dict, chord_dict, retval, root_note, call_intervals, call>>

\* lines 293-296: one append of the flattening loops
FlattenStep ==
    /\ pc = "flatten"
    /\ outer_idx <= Len(temp_chord_frequencies)
    /\ inner_idx <= Len(temp_chord_frequencies[outer_idx])
    /\ chord_frequencies' =
           Append(chord_frequencies, temp_chord_frequencies[outer_idx][inner_idx])
    /\ IF inner_idx < Len(temp_chord_frequencies[outer_idx])
       THEN /\ inner_idx' = inner_idx + 1
            /\ outer_idx' = outer_idx
            /\ pc' = "flatten"
       ELSE /\ inner_idx' = 1
            /\ outer_idx' = outer_idx + 1
            /\ pc' = IF outer_idx = Len(temp_chord_frequencies) THEN "zip" ELSE "flatten"
    /\ UNCHANGED <<table_err, range, input_scale, note_names, all_notes, notes_dict, chord_names,
                   c_chord_names, c_chord_frequencies, temp_chord_frequencies, root_idx,
                   c_chord_dict, chord_dict, retval, root_note, call_intervals, call>>

\* lines 308-313: the two dictionaries and the one returned
ReturnDict ==
    /\ pc = "zip"
    /\ c_chord_dict' = dict_zip(c_chord_names, c_chord_frequencies)
    /\ chord_dict' = dict_zip(chord_names, chord_frequencies)
    /\ retval' = IF range = "c" THEN c_chord_dict'
                 ELSE IF range = "all" THEN chord_dict'
                 ELSE EmptyDict
    /\ pc' = "done"
    /\ UNCHANGED <<table_err, range, input_scale, note_names, all_notes, notes_dict, chord_names,
                   c_chord_names, c_chord_frequencies, temp_chord_frequencies,
                   chord_frequencies, root_idx, outer_idx, inner_idx, root_note,
                   call_intervals, call>>

Next ==
    \/ BuildNoteTable
    \/ BuildChordNames
    \/ ResolveCChords
    \/ ResolveRootChords
    \/ FlattenStep
    \/ ReturnDict

Spec == Init /\ [][Next]_vars

(***************************************************************************)
(* Specification SpecTable: calc_all_notes applied to base-frequency lists *)
(* drawn from a bounded set: the two lists of the program, the chromatic   *)
(* list with one entry made zero or negative, and every list of at most    *)
(* MaxScaleLen frequencies among -1 Hz .. MaxBase Hz.                      *)
(***************************************************************************)
BaseValues == {b * FreqScale : b \in (-1)..MaxBase}

ScaleInputs ==
    {cf_1, df_1}
    \cup {[cf_1 EXCEPT ![j] = v] : j \in 1..Len(cf_1), v \in {0, -FreqScale}}
    \cup UNION {[1..m -> BaseValues] : m \in 0..MaxScaleLen}

InitTable ==
    /\ pc = "table_start"
    /\ input_scale \in ScaleInputs
    /\ range = "c"
    /\ note_names = <<>>
    /\ all_notes = <<>>
    /\ table_err = "nocall"
    /\ notes_dict = EmptyDict
    /\ chord_names = <<>>
    /\ c_chord_names = <<>>
    /\ c_chord_frequencies = <<>>
    /\ temp_chord_frequencies = <<>>
    /\ chord_frequencies = <<>>
    /\ root_idx = 1
    /\ outer_idx = 1
    /\ inner_idx = 1
    /\ c_chord_dict = EmptyDict
    /\ chord_dict = EmptyDict
    /\ retval = EmptyDict
    /\ root_note = ""
    /\ call_intervals = <<>>
    /\ call = NoCall

\* lines 366-371: one call of calc_all_notes; nothing in it raises
CalcAllNotesCall ==
    /\ pc = "table_start"
    /\ all_notes' = calc_all_notes(input_scale)
    /\ table_err' = "none"
    /\ pc' = "table_built"
    /\ UNCHANGED <<range, input_scale, note_names, notes_dict, chord_names,
                   c_chord_names, c_chord_frequencies, temp_chord_frequencies,
                   chord_frequencies, root_idx, outer_idx, inner_idx, c_chord_dict,
                   chord_dict, retval, root_note, call_intervals, call>>

NextTable == CalcAllNotesCall

SpecTable == InitTable /\ [][NextTable]_vars

(***************************************************************************)
(* Specification SpecResolve: calls of calc_chord_freqs on the table of    *)
(* chords() (the state after line 276), with the root drawn from every     *)
(* name of the table and some names outside it, and the chord list from a  *)
(* bounded set of lists.                                                   *)
(***************************************************************************)
AbsentRoots == {"Z9", "C10", "B10", "H4", "c4", "C", ""}

TableNoteNames ==
    combine_prefix_suffix(note_name_prefixes, note_name_suffixes, "prefixes_first")

RootInputs == {TableNoteNames[i] : i \in 1..Len(TableNoteNames)} \cup AbsentRoots

IntervalInputs ==
    {chord_intervals, <<>>, <<<<root>>>>, <<i0, i1>>,
     <<<<root, perfect_octave, MaxInterval>>, i8>>}

InitResolve ==
    /\ pc = "args"
    /\ range = "c"
    /\ input_scale = cf_1
    /\ note_names = TableNoteNames
    /\ all_notes = calc_all_notes(cf_1)
    /\ table_err = "none"
    /\ notes_dict = dict_zip(note_names, all_notes)
    /\ chord_names = combine_prefix_suffix(chord_name_prefixes, chord_name_suffixes,
                                           "suffixes_first")
    /\ c_chord_names = combine_prefix_suffix(c_chord_name_prefixes, chord_name_suffixes,
                                             "suffixes_first")
    /\ c_chord_frequencies = <<>>
    /\ temp_chord_frequencies = <<>>
    /\ chord_frequencies = <<>>
    /\ root_idx = 1
    /\ outer_idx = 1
    /\ inner_idx = 1
    /\ c_chord_dict = EmptyDict
    /\ chord_dict = EmptyDict
    /\ retval = EmptyDict
    /\ root_note \in RootInputs
    /\ call_intervals \in IntervalInputs
    /\ call = NoCall

\* a call whose scan removes the entries it passes from the caller's table
CalcChordFreqsCall_consuming ==
    /\ pc = "args"
    /\ call' = calc_chord_freqs(chord_names, call_intervals, root_note,
                                notes_dict, all_notes)
    /\ all_notes' = IF call'.pos > 0 /\ call'.pos <= Len(all_notes)
                    THEN SubSeq(all_notes, call'.pos + 1, Len(all_notes))
                    ELSE all_notes
    /\ pc' = "returned"
    /\ UNCHANGED <<table_err, range, input_scale, note_names, notes_dict, chord_names,
                   c_chord_names, c_chord_frequencies, temp_chord_frequencies,
                   chord_frequencies, root_idx, outer_idx, inner_idx, c_chord_dict,
                   chord_dict, retval, root_note, call_intervals>>

\* lines 317-342: one call of calc_chord_freqs; it assigns to its locals only
CalcChordFreqsCall ==
    /\ pc = "args"
    /\ call' = calc_chord_freqs(chord_names, call_intervals, root_note,
                                notes_dict, all_notes)
    /\ pc' = "returned"
    /\ UNCHANGED <<table_err, range, input_scale, note_names, all_notes, notes_dict, chord_names,
                   c_chord_names, c_chord_frequencies, temp_chord_frequencies,
                   chord_frequencies, root_idx, outer_idx, inner_idx, c_chord_dict,
                   chord_dict, retval, root_note, call_intervals>>

\* the caller picks the arguments of its next call
NextArguments ==
    /\ pc = "returned"
    /\ root_note' \in RootInputs
    /\ call_intervals' \in IntervalInputs
    /\ call' = NoCall
    /\ pc' = "args"
    /\ UNCHANGED <<table_err, range, input_scale, note_names, all_notes, notes_dict, chord_names,
                   c_chord_names, c_chord_frequencies, temp_chord_frequencies,
                   chord_frequencies, root_idx, outer_idx, inner_idx, c_chord_dict,
                   chord_dict, retval>>

NextResolve == CalcChordFreqsCall \/ NextArguments

SpecResolve == InitResolve /\ [][NextResolve]_vars

(***************************************************************************)
(* Properties.                                                             *)
(***************************************************************************)
\* the 0-based rank of a name in the list of note names (its own entry)
NameRank(names, n) == (CHOOSE i \in 1..Len(names) : names[i] = n) - 1

NamedRoot == \E i \in 1..Len(note_names) : note_names[i] = root_note

\* the intervals of the current call, as pairs <<chord index, index in the chord>>
CallSlots ==
    {<<c, j>> \in (1..Len(call_intervals)) \X (1..7) : j <= Len(call_intervals[c])}

\* C1: a call of calc_chord_freqs for a root present in the table and
\* intervals whose positions all stay inside the table succeeds and returns,
\* for every chord, one frequency per interval in the order of the intervals,
\* the frequency for interval k being the table entry k positions after the
\* root's own entry; for the interval list [0] the result is the root's
\* frequency.
C1_ChordIsOffsetsFromRoot ==
    (/\ pc = "returned"
     /\ NamedRoot
     /\ \A s \in CallSlots :
            NameRank(note_names, root_note) + call_intervals[s[1]][s[2]] < Len(all_notes))
    => /\ call.err = "none"
       /\ Len(call.ret) = Len(call_intervals)
       /\ \A c \in 1..Len(call_intervals) : Len(call.ret[c]) = Len(call_intervals[c])
       /\ \A s \in CallSlots :
              call.ret[s[1]][s[2]] =
                  all_notes[NameRank(note_names, root_note) + call_intervals[s[1]][s[2]] + 1]
       /\ (call_intervals = <<<<0>>>> => call.ret = <<<<notes_dict[root_note]>>>>)

C1_Witness ==
    /\ pc = "returned"
    /\ root_note = "C4"
    /\ call_intervals = <<<<0>>>>
    /\ call.err = "none"
    /\ call.ret = <<<<notes_dict["C4"]>>>>

\* C2: for a root named by pitch class p and octave rank o, the frequency
\* returned for an interval k whose target is a named note of the table is
\* the frequency of the note named by pitch class (p + k) mod 12 and octave
\* rank o + (p + k) div 12.
C2_IntervalIsSemitones ==
    (pc = "returned" /\ call.err = "none") =>
        \A p \in 0..(Len(note_name_prefixes) - 1), o \in 0..(Len(note_name_suffixes) - 1) :
            (root_note = note_name_prefixes[p + 1] \o note_name_suffixes[o + 1]) =>
                \A s \in CallSlots :
                    LET k == call_intervals[s[1]][s[2]]
                        tp == (p + k) % 12
                        to == o + ((p + k) \div 12)
                    IN  (to < Len(note_name_suffixes)) =>
                            call.ret[s[1]][s[2]] =
                                notes_dict[note_name_prefixes[tp + 1] \o note_name_suffixes[to + 1]]

C2_Witness ==
    /\ pc = "returned"
    /\ root_note = "A4"
    /\ call_intervals = chord_intervals
    /\ call.err = "none"
    /\ call.ret[1] = <<notes_dict["A4"], notes_dict["Cs5"], notes_dict["E5"]>>

\* C3: in the table calc_all_notes returns for n base frequencies, the entry
\* of pitch class p in octave i + 1 is exactly twice the entry of p in octave
\* i, for every octave i whose successor is tabulated.
C3_OctaveDoubling ==
    (pc = "table_built") =>
        LET n == Len(input_scale)
        IN  \A p \in 1..n, i \in 0..(n - 2) :
                all_notes[(i + 1) * n + p] = 2 * all_notes[i * n + p]

C3_Witness ==
    /\ pc = "table_built"
    /\ input_scale = cf_1
    /\ all_notes[12 + 10] = 2 * all_notes[10]
    /\ all_notes[10] = 137500

\* C4: the table chords() generates from the 12 chromatic base frequencies
\* is strictly increasing in the generated order, octave boundaries included.
C4_TableStrictlyIncreasing ==
    (pc # "start") =>
        \A k \in 1..(Len(all_notes) - 1) : all_notes[k] < all_notes[k + 1]

C4_Witness ==
    /\ pc = "chord_names"
    /\ Len(all_notes) = 144
    /\ all_notes[12] < all_notes[13]

\* C5: a call for a root name absent from the note table raises KeyError at
\* the lookup: the scan is not reached and nothing is returned.
C5_UnknownRootRaises ==
    (pc = "returned" /\ ~ NamedRoot) =>
        /\ call.err = "KeyError"
        /\ call.pos = NoPos
        /\ call.ret = <<>>

C5_Witness ==
    /\ pc = "returned"
    /\ root_note = "Z9"
    /\ call_intervals = chord_intervals
    /\ call.err = "KeyError"

\* C6: a call for a root present in the table in which some interval leads
\* beyond the last position of the table (all_notes) raises IndexError and
\* returns nothing, whatever the other intervals and chords of the call are.
C6_OutOfRangeRaises ==
    (/\ pc = "returned"
     /\ NamedRoot
     /\ \E s \in CallSlots :
            NameRank(note_names, root_note) + call_intervals[s[1]][s[2]] >= Len(all_notes))
    => /\ call.err = "IndexError"
       /\ call.ret = <<>>

C6_Witness ==
    /\ pc = "returned"
    /\ root_note = "B9"
    /\ call_intervals = chord_intervals
    /\ NameRank(note_names, root_note) + i0[3] < Len(all_notes)
    /\ NameRank(note_names, root_note) + i7[5] >= Len(all_notes)
    /\ call.err = "IndexError"

BadScale ==
    \/ Len(input_scale) < 12
    \/ \E j \in 1..Len(input_scale) : input_scale[j] <= 0

\* C7 as stated: calc_all_notes fails with InvalidInput and produces no table
\* when given fewer than 12 base frequencies or a zero or negative one.
C7_Original ==
    (pc = "table_built" /\ BadScale) =>
        /\ table_err = "InvalidInput"
        /\ all_notes = <<>>

\* C7 amended: calc_all_notes validates nothing: given n base frequencies,
\* fewer than 12 or zero or negative ones included, it raises no error and
\* returns a table of n * n entries.
C7_NoValidation ==
    (pc = "table_built") =>
        /\ table_err = "none"
        /\ Len(all_notes) = Len(input_scale) * Len(input_scale)

C7_Witness ==
    /\ pc = "table_built"
    /\ input_scale = df_1
    /\ BadScale
    /\ table_err = "none"
    /\ Len(all_notes) = 49

\* C8: chords() yields R * D chords for its R roots and D chord definitions,
\* definitions nested inside roots: entry r * D + d is definition d resolved
\* at root r, and it is paired with the name made of prefix r and suffix d.
C8_BatchOrder ==
    (pc = "done") =>
        LET R == Len(middle_c_chromatic)
            D == Len(chord_intervals)
        IN  /\ Len(chord_frequencies) = R * D
            /\ Len(chord_names) = R * D
            /\ \A r \in 0..(R - 1), d \in 0..(D - 1) :
                   LET name == chord_name_prefixes[r + 1] \o chord_name_suffixes[d + 1]
                       rank == NameRank(note_names, middle_c_chromatic[r + 1])
                       chord == [j \in 1..Len(chord_intervals[d + 1]) |->
                                    all_notes[rank + chord_intervals[d + 1][j] + 1]]
                   IN  /\ chord_frequencies[r * D + d + 1] = chord
                       /\ chord_names[r * D + d + 1] = name
                       /\ chord_dict[name] = chord

C8_Witness ==
    /\ pc = "done"
    /\ range = "all"
    /\ Len(chord_frequencies) = 300
    /\ chord_names[27] = "Csm"
    /\ retval["Csm"] = <<notes_dict["Cs4"], notes_dict["E4"], notes_dict["Gs4"]>>

\* C9: a call of calc_chord_freqs, successful or failing, leaves the
\* frequency table, the name -> frequency dict and the chord interval lists
\* it was given unchanged.
C9_ResolveHasNoSideEffects ==
    [][(pc = "args") =>
          /\ all_notes' = all_notes
          /\ notes_dict' = notes_dict
          /\ call_intervals' = call_intervals
          /\ note_names' = note_names]_vars

C9_Witness ==
    /\ pc = "returned"
    /\ root_note = "C10"
    /\ call.err = "KeyError"
    /\ all_notes = calc_all_notes(cf_1)
    /\ notes_dict = dict_zip(note_names, all_notes)

\* C10 as stated: the table built in chords() has one name per generated
\* frequency: the names and the frequencies are equally many, every
\* generated frequency is paired with exactly one name, and no name occurs
\* twice.
C10_OneNamePerFrequency ==
    (pc # "start") =>
        /\ Len(note_names) = Len(all_notes)
        /\ \A i \in 1..Len(all_notes) :
               Cardinality({n \in DOMAIN notes_dict : notes_dict[n] = all_notes[i]}) = 1
        /\ \A i, j \in 1..Len(note_names) : note_names[i] = note_names[j] => i = j

\* C11: within every octave of the table chords() generates, the ratio of
\* each frequency to the one of the pitch class before it is 2^(1/12) within
\* a relative tolerance of 1e-4.  With a the lower and b the upper frequency,
\* both divided by the octave's power of two (which divides them exactly and
\* leaves b / a as it is), the formula asks
\*     11872 / 200000 <= (b - a) / a <= 11913 / 200000,
\* an interval inside [(1 - 1e-4) * 2^(1/12) - 1, (1 + 1e-4) * 2^(1/12) - 1]
\* = [0.0593571..., 0.0595690...].
C11_SemitoneRatio ==
    (pc # "start") =>
        \A i \in 0..((Len(all_notes) \div 12) - 1), j \in 1..11 :
            LET a == all_notes[12 * i + j] \div np_power2(i)
                b == all_notes[12 * i + j + 1] \div np_power2(i)
            IN  /\ all_notes[12 * i + j] = a * np_power2(i)
                /\ all_notes[12 * i + j + 1] = b * np_power2(i)
                /\ a > 0
                /\ (b - a) * 200000 >= a * 11872
                /\ (b - a) * 200000 <= a * 11913

C11_Witness ==
    /\ pc = "c_chord"
    /\ Len(all_notes) = 144
    /\ all_notes[61] = 2616256
    /\ all_notes[62] = 2771840

\* C12 as stated: given 12 base frequencies and the octave count of its
\* caller, calc_all_notes returns 12 * octave_count entries, entry 12 * i + j
\* being base[j] * 2^i for every octave i below octave_count.  calc_all_notes
\* takes no octave count; the count of its caller chords() is the number of
\* octave suffixes chords() has names for.
C12_OctaveCountEntries ==
    (pc # "start" /\ Len(input_scale) = 12) =>
        LET octave_count == Len(note_name_suffixes)
        IN  /\ Len(all_notes) = 12 * octave_count
            /\ \A i \in 0..(octave_count - 1), j \in 0..11 :
                   all_notes[12 * i + j + 1] = input_scale[j + 1] * np_power2(i)

\* C13: for every root named in the table, the scan of calc_chord_freqs
\* stops before the end of the table, at the rank of the root's name in
\* generation order (12 * octave rank + pitch-class index): no earlier entry
\* has the root's frequency.
C13_ScanFindsNameRank ==
    (pc = "returned" /\ NamedRoot) =>
        /\ call.pos < Len(all_notes)
        /\ call.pos = NameRank(note_names, root_note)
        /\ \A p \in 0..(Len(note_name_prefixes) - 1), o \in 0..(Len(note_name_suffixes) - 1) :
               (root_note = note_name_prefixes[p + 1] \o note_name_suffixes[o + 1]) =>
                   call.pos = 12 * o + p
        /\ \A q \in 1..call.pos : all_notes[q] # notes_dict[root_note]

C13_Witness ==
    /\ pc = "returned"
    /\ root_note = "B9"
    /\ call_intervals = <<>>
    /\ call.err = "none"
    /\ call.pos = 131

StrictlyAscending(seq) == \A j \in 1..(Len(seq) - 1) : seq[j] < seq[j + 1]

\* C14: each of the 25 chord definitions starts with interval 0 and is
\* strictly ascending, and every chord in the dictionary chords('c') or
\* chords('all') returns is a strictly ascending sequence of frequencies that
\* starts with the frequency of the root it was resolved at.
C14_ChordsAscendFromRoot ==
    /\ Len(chord_intervals) = 25
    /\ \A d \in 1..Len(chord_intervals) :
           /\ chord_intervals[d][1] = 0
           /\ StrictlyAscending(chord_intervals[d])
    /\ (pc = "done") =>
           /\ DOMAIN retval # {}
           /\ \A name \in DOMAIN retval : StrictlyAscending(retval[name])
           /\ \A d \in 1..Len(chord_name_suffixes) :
                  /\ (range = "c") =>
                         retval[c_chord_name_prefixes[1] \o chord_name_suffixes[d]][1]
                             = notes_dict[root_note_c4]
                  /\ (range = "all") =>
                         \A r \in 1..Len(chord_name_prefixes) :
                             retval[chord_name_prefixes[r] \o chord_name_suffixes[d]][1]
                                 = notes_dict[middle_c_chromatic[r]]

C14_Witness ==
    /\ pc = "done"
    /\ range = "c"
    /\ Len(retval["C13"]) = 7
    /\ StrictlyAscending(retval["C13"])
    /\ retval["C13"][1] = notes_dict["C4"]

\* C15 as stated: the twelve roots chords('all') resolves are the twelve
\* consecutive notes of the middle-C octave: the root of the k-th prefix is
\* at table position 60 + k, one semitone above the root before it, and every
\* chord named with prefix P is the chord rooted on P in octave 4.
C15_RootsAreMiddleOctave ==
    (pc = "done") =>
        \A k \in 0..(Len(chord_name_prefixes) - 1) :
            /\ NameRank(note_names, middle_c_chromatic[k + 1]) = 60 + k
            /\ (k > 0) =>
                   NameRank(note_names, middle_c_chromatic[k + 1])
                       = NameRank(note_names, middle_c_chromatic[k]) + 1
            /\ \A d \in 1..Len(chord_name_suffixes) :
                   chord_dict[chord_name_prefixes[k + 1] \o chord_name_suffixes[d]][1]
                       = notes_dict[chord_name_prefixes[k + 1] \o "4"]

====
